---------------------------- MODULE Spec2Model ----------------------------
(***************************************************************************)
(* Model of the cm2 reference-data loader (src/cm2/refdata.py) and of the  *)
(* schema it writes to (src/cm2/schema.py): the composer-name parser, the  *)
(* name synthesizer, the resolver (find_composer / add_composer) and the   *)
(* two segment loaders (load_composer / load_work).                        *)
(*                                                                         *)
(* Strings.  A Python string is modelled as a sequence of atoms.  An atom  *)
(* is a maximal run of word characters ("Bach", "Jr.", "1845") or one of   *)
(* the single characters "," " " "-".  Every string operation of the code  *)
(* (split, join, strip, rfind, lower, the regular expressions) is defined  *)
(* on these sequences.  None and the empty string are both <<>>: the code  *)
(* only ever tests such values for truthiness.                             *)
(***************************************************************************)
EXTENDS Integers, Sequences, FiniteSets, TLC

\* ------------------------------------------------------------- bounds

\* Number of load runs (Refdata.load calls on one segment file) explored.
MaxLoads == 3

\* ------------------------------------------------------ string helpers

SP == " "
COMMA == ","
HYPHEN == "-"

\* A one-word string.
W(a) == <<a>>

\* Two words separated by one space.
W2(a, b) == <<a, SP, b>>

Min(S) == CHOOSE x \in S : \A y \in S : x <= y

Max(S) == CHOOSE x \in S : \A y \in S : x >= y

Range(s) == {s[i] : i \in DOMAIN s}

\* s[i:] of Python, with i a 1-based position.
From(s, i) == SubSeq(s, i, Len(s))

\* sep.join(list)
RECURSIVE Join(_, _)
Join(list, sep) ==
  IF list = <<>> THEN <<>>
  ELSE IF Len(list) = 1 THEN list[1]
  ELSE list[1] \o sep \o Join(Tail(list), sep)

\* Positions at which sub occurs in s.
Occurs(s, sub) ==
  {i \in 1..(Len(s) - Len(sub) + 1) : SubSeq(s, i, i + Len(sub) - 1) = sub}

\* s.split(sep, maxsplit); maxsplit = -1 for no limit.
RECURSIVE SplitMax(_, _, _)
SplitMax(s, sep, maxsplit) ==
  IF maxsplit = 0 \/ Occurs(s, sep) = {} THEN <<s>>
  ELSE LET i == Min(Occurs(s, sep))
       IN <<SubSeq(s, 1, i - 1)>>
            \o SplitMax(From(s, i + Len(sep)), sep,
                        IF maxsplit < 0 THEN maxsplit ELSE maxsplit - 1)

\* s.split(', ')
SplitCommaSp(s) == SplitMax(s, <<COMMA, SP>>, -1)

\* s.split(): the maximal runs of non-space atoms.
RECURSIVE SplitWs(_)
SplitWs(s) ==
  IF s = <<>> THEN <<>>
  ELSE IF s[1] = SP THEN SplitWs(Tail(s))
  ELSE LET sps == {i \in 1..Len(s) : s[i] = SP}
           e == IF sps = {} THEN Len(s) + 1 ELSE Min(sps)
       IN <<SubSeq(s, 1, e - 1)>> \o SplitWs(From(s, e))

\* s.lstrip(chars) for a set of one-character atoms.
RECURSIVE LStrip(_, _)
LStrip(s, chars) ==
  IF s # <<>> /\ s[1] \in chars THEN LStrip(Tail(s), chars) ELSE s

\* s.rstrip(chars)
RECURSIVE RStrip(_, _)
RStrip(s, chars) ==
  IF s # <<>> /\ s[Len(s)] \in chars
  THEN RStrip(SubSeq(s, 1, Len(s) - 1), chars) ELSE s

\* s.strip()
Strip(s) == RStrip(LStrip(s, {SP}), {SP})

\* s.rfind(sub) as a 1-based position, 0 when absent (Python: -1).
RFind(s, sub) == IF Occurs(s, sub) = {} THEN 0 ELSE Max(Occurs(s, sub))

\* s.find(sub) as a 1-based position, 0 when absent.
Find(s, sub) == IF Occurs(s, sub) = {} THEN 0 ELSE Min(Occurs(s, sub))

\* list[-n:] of Python.
LastN(list, n) == SubSeq(list, IF Len(list) > n THEN Len(list) - n + 1 ELSE 1, Len(list))

\* list[:n] of Python.
FirstN(list, n) == SubSeq(list, 1, IF Len(list) > n THEN n ELSE Len(list))

\* list without its last n elements.
DropLast(list, n) == SubSeq(list, 1, Len(list) - n)

\* x in list
InList(x, list) == \E i \in DOMAIN list : list[i] = x

\* ----------------------------------------------------- character classes

\* Atoms made of decimal digits only.
DigitAtoms == {"1845", "1924", "1450", "1521", "1500"}

\* Atoms that are one letter long.
SingleLetterAtoms == {"A", "B", "C"}

\* Atoms whose first character is not a letter.
NoLetterStart == DigitAtoms \cup {COMMA, SP, HYPHEN, "(von)", "(i)", "(ii)"}

\* Atoms whose last character is not a letter.
NoLetterEnd ==
  DigitAtoms \cup {COMMA, SP, HYPHEN, "(von)", "(i)", "(ii)", "Jr.", "Sr.", "jr.", "sr.", "fl."}

\* str.lower() on one atom.
LowerAtom(a) ==
  CASE a = "Bach" -> "bach" [] a = "BACH" -> "bach"
    [] a = "Johann" -> "johann" [] a = "Smith" -> "smith"
    [] a = "John" -> "john" [] a = "Paul" -> "paul"
    [] a = "Fauré" -> "fauré" [] a = "Gabriel" -> "gabriel"
    [] a = "Pliny" -> "pliny" [] a = "Elder" -> "elder"
    [] a = "Van" -> "van" [] a = "Von" -> "von"
    [] a = "Sir" -> "sir" [] a = "II" -> "ii"
    [] a = "Jr." -> "jr." [] a = "Sr." -> "sr."
    [] a = "Josquin" -> "josquin" [] a = "Hildegard" -> "hildegard"
    [] a = "Bingen" -> "bingen" [] a = "Beethoven" -> "beethoven"
    [] a = "Ludwig" -> "ludwig" [] a = "Beek" -> "beek" [] a = "Jan" -> "jan"
    [] a = "A" -> "a" [] a = "B" -> "b" [] a = "C" -> "c"
    [] a = "Faure" -> "faure" [] a = "Sebastian" -> "sebastian"
    [] a = "Elgar" -> "elgar" [] a = "Anonymous" -> "anonymous"
    [] OTHER -> a

\* unidecode() on one atom.
UnidecodeAtom(a) ==
  CASE a = "Fauré" -> "Faure" [] a = "fauré" -> "faure"
    [] a = "père" -> "pere"
    [] OTHER -> a

\* str.lower() on a string.
Lower(s) == [i \in DOMAIN s |-> LowerAtom(s[i])]

\* norm(s) that keeps case: the mutant of norm.
norm_keep_case(s) == [i \in DOMAIN s |-> UnidecodeAtom(s[i])]

\* langutils.norm: unidecode(s).lower()
norm(s) == [i \in DOMAIN s |-> LowerAtom(UnidecodeAtom(s[i]))]

\* ---------------------------------------------------------- rule tables

TITLES == <<W("Sir")>>

LAST_PREFIXES ==
  <<W("de"), W("da"), W("del"), W("van"), W("von"), W2("van", "der"),
    W2("von", "der"), W("(von)"), W("Von"), W("of"), W("di"), W("zu")>>

LAST_PREFIXES_CI ==
  <<W("de"), W("da"), W("del"), W("van"), W("von"), W2("van", "der"),
    W2("von", "der")>>

SUFFIXES ==
  <<W("I"), W("II"), W("III"), W("IV"), W("V"), W("VI"), W("VII"), W("VIII"),
    W("IX"), W("X"), W("Jr."), W("Sr."), W2("the", "Elder"),
    W2("the", "Younger"), W2("El", "Viejo"), W2("El", "Joven"), W("(i)"),
    W("(ii)")>>

SUFFIXES_CI ==
  <<W("jr."), W("sr."), W2("the", "elder"), W2("the", "younger"),
    W2("el", "viejo"), W2("el", "joven"), W2("le", "père"), W2("le", "fils"),
    W("père"), W("fils")>>

\* -------------------------------------------------- Person (schema.py)

NAME_COMPS == <<"title", "first_name", "middle_name", "last_prefix", "last_name", "suffix">>

SH_NAME_COMPS == <<"title", "first_name", "last_prefix", "last_name", "suffix">>

VAR_NAME_COMPS == <<"title", "middle_name", "last_prefix", "last_name", "suffix">>

ALT_NAME_COMPS == <<"last_name", "suffix", "title", "first_name", "middle_name", "last_prefix">>

ALT_SH_NAME_COMPS == <<"last_name", "suffix", "title", "first_name", "last_prefix">>

ALT_VAR_NAME_COMPS == <<"last_name", "suffix", "title", "middle_name", "last_prefix">>

\* Person(): every field at its default; is_composer NULL is FALSE here
\* (the code only tests it for truthiness).
NewPerson ==
  [name |-> <<>>, disamb |-> <<>>, alt_name |-> <<>>,
   title |-> <<>>, first_name |-> <<>>, middle_name |-> <<>>,
   last_prefix |-> <<>>, last_name |-> <<>>, suffix |-> <<>>,
   is_composer |-> FALSE, source |-> ""]

\* [getattr(self, x) for x in COMPS if getattr(self, x)]
Comps(p, COMPS) ==
  LET all == [i \in DOMAIN COMPS |-> p[COMPS[i]]]
      present(c) == c # <<>>
  IN SelectSeq(all, present)

\* The comma placement of full_name / short_name / var_name: appended to the
\* second-to-last component when a suffix is present.
SuffixComma(p, comps) ==
  IF p.suffix # <<>> /\ Len(comps) > 1
  THEN [comps EXCEPT ![Len(comps) - 1] = @ \o <<COMMA>>]
  ELSE comps

\* assert len(comps) > 1 (under "if self.suffix") fails.
NameAssertFails(p, COMPS) == p.suffix # <<>> /\ Len(Comps(p, COMPS)) <= 1

\* A synthesizer that forgets the comma before the suffix (mutant of full_name).
full_name_no_comma(p) == Join(Comps(p, NAME_COMPS), <<SP>>)

\* Person.full_name
full_name(p) == Join(SuffixComma(p, Comps(p, NAME_COMPS)), <<SP>>)

\* Person.short_name (None when there is no first_name)
short_name(p) ==
  IF p.first_name = <<>> THEN <<>>
  ELSE Join(SuffixComma(p, Comps(p, SH_NAME_COMPS)), <<SP>>)

\* Person.var_name (None when there is no middle_name)
var_name(p) ==
  IF p.middle_name = <<>> THEN <<>>
  ELSE Join(SuffixComma(p, Comps(p, VAR_NAME_COMPS)), <<SP>>)

\* The comma placement of the alt_* forms: after the last name, or after the
\* suffix when there is one and something follows it.
AltComma(p, comps) ==
  IF p.last_name # <<>> /\ Len(comps) > 1
  THEN IF p.suffix = <<>> THEN [comps EXCEPT ![1] = @ \o <<COMMA>>]
       ELSE IF Len(comps) > 2 THEN [comps EXCEPT ![2] = @ \o <<COMMA>>]
       ELSE comps
  ELSE comps

\* Person.alt_full_name
alt_full_name(p) == Join(AltComma(p, Comps(p, ALT_NAME_COMPS)), <<SP>>)

\* Person.alt_short_name
alt_short_name(p) ==
  IF p.first_name = <<>> THEN <<>>
  ELSE Join(AltComma(p, Comps(p, ALT_SH_NAME_COMPS)), <<SP>>)

\* Person.alt_var_name
alt_var_name(p) ==
  IF p.middle_name = <<>> THEN <<>>
  ELSE Join(AltComma(p, Comps(p, ALT_VAR_NAME_COMPS)), <<SP>>)

\* The part of Person.save that runs before the INSERT/UPDATE: default the
\* name and the alt_name from the components.
PersonPreSave(p) ==
  LET p1 == IF p.name = <<>> THEN [p EXCEPT !.name = full_name(p)] ELSE p
  IN IF p1.alt_name = <<>> /\ alt_full_name(p1) # p1.name
     THEN [p1 EXCEPT !.alt_name = alt_full_name(p1)]
     ELSE p1

\* ------------------------------------------- parse_comp_name (refdata.py)

\* The parser's working state: the Person being built, the comma pieces, the
\* whitespace tokens of the two parts, the exception raised ("" for none) and
\* the return taken ("" while running, "person", or "none" for None).
ParseStart(comp_name, disamb) ==
  [person |-> [NewPerson EXCEPT !.disamb = disamb],
   pieces |-> SplitCommaSp(comp_name),
   last_pieces |-> <<>>, first_pieces |-> <<>>,
   exc |-> "", ret |-> ""]

Live(ps) == ps.exc = "" /\ ps.ret = ""

\* Assign that overwrites a component already set (mutant of Assign).
AssignOverwrite(ps, comp, value) == [ps EXCEPT !.person[comp] = value]

\* "assert not person.<comp>; person.<comp> = value"
Assign(ps, comp, value) ==
  IF ps.person[comp] # <<>> THEN [ps EXCEPT !.exc = "AssertionError"]
  ELSE [ps EXCEPT !.person[comp] = value]

IsPrefixPiece(x) == InList(x, LAST_PREFIXES) \/ InList(Lower(x), LAST_PREFIXES_CI)

IsSuffixPiece(x) == InList(x, SUFFIXES) \/ InList(Lower(x), SUFFIXES_CI)

\* list without its element at position i.
Pop(list, i) == SubSeq(list, 1, i - 1) \o SubSeq(list, i + 1, Len(list))

\* Lines 391-396: a leading prefix piece, only with 3 or more pieces.
PiecePrefix(ps) ==
  IF Live(ps) /\ Len(ps.pieces) >= 3 /\ IsPrefixPiece(ps.pieces[1])
  THEN [Assign(ps, "last_prefix", ps.pieces[1]) EXCEPT !.pieces = Tail(ps.pieces)]
  ELSE ps

\* PieceSuffix tried with 2 or fewer pieces instead of 2 or more (mutant of
\* PieceSuffix).
PieceSuffix_TwoOrFewer(ps) ==
  IF Live(ps) /\ Len(ps.pieces) = 2
  THEN IF IsSuffixPiece(ps.pieces[2])
       THEN [Assign(ps, "suffix", ps.pieces[2]) EXCEPT !.pieces = DropLast(ps.pieces, 1)]
       ELSE ps
  ELSE IF Live(ps) /\ Len(ps.pieces) = 1 /\ IsSuffixPiece(ps.pieces[1])
  THEN [Assign(ps, "suffix", ps.pieces[1]) EXCEPT !.pieces = <<>>]
  ELSE ps

\* Lines 398-405: a suffix piece, at the end or just after the last name.
PieceSuffix(ps) ==
  IF Live(ps) /\ Len(ps.pieces) > 1
  THEN IF IsSuffixPiece(ps.pieces[Len(ps.pieces)])
       THEN [Assign(ps, "suffix", ps.pieces[Len(ps.pieces)])
               EXCEPT !.pieces = DropLast(ps.pieces, 1)]
       ELSE IF IsSuffixPiece(ps.pieces[2])
       THEN [Assign(ps, "suffix", ps.pieces[2]) EXCEPT !.pieces = Pop(ps.pieces, 2)]
       ELSE ps
  ELSE ps

\* PieceCount that gives up only at four or more pieces (mutant of
\* PieceCount).
PieceCount_FourOrMore(ps) ==
  IF ~Live(ps) THEN ps
  ELSE IF Len(ps.pieces) >= 4 THEN [ps EXCEPT !.ret = "none"]
  ELSE IF Len(ps.pieces) = 1
  THEN LET comp == IF ps.person.last_prefix # <<>> THEN "last_name" ELSE "first_name"
           done == Assign(ps, comp, ps.pieces[1])
       IN IF done.exc # "" THEN done ELSE [done EXCEPT !.ret = "person", !.pieces = <<>>]
  ELSE ps

\* Lines 407-421: three or more pieces left is None; one piece is the last
\* name after a prefix, the first name otherwise.
PieceCount(ps) ==
  IF ~Live(ps) THEN ps
  ELSE IF Len(ps.pieces) >= 3 THEN [ps EXCEPT !.ret = "none"]
  ELSE IF Len(ps.pieces) = 1
  THEN LET comp == IF ps.person.last_prefix # <<>> THEN "last_name" ELSE "first_name"
           done == Assign(ps, comp, ps.pieces[1])
       IN IF done.exc # "" THEN done ELSE [done EXCEPT !.ret = "person", !.pieces = <<>>]
  ELSE ps

\* Lines 423-439: split both parts on whitespace; a leading title, borrowing
\* one token from the last part when the title was all of the first part.
SplitParts(ps) ==
  IF ~Live(ps) THEN ps
  ELSE IF Len(ps.pieces) # 2 \/ Len(ps.pieces[1]) = 0 \/ Len(ps.pieces[2]) = 0
  THEN [ps EXCEPT !.exc = "AssertionError"]
  ELSE LET lp == SplitWs(ps.pieces[1])
           fp == SplitWs(ps.pieces[2])
           s0 == [ps EXCEPT !.last_pieces = lp, !.first_pieces = fp]
       IN IF fp # <<>> /\ InList(fp[1], TITLES)
          THEN LET s1 == Assign(s0, "title", fp[1])
               IN IF s1.exc # "" THEN s1
                  ELSE IF Tail(fp) # <<>> THEN [s1 EXCEPT !.first_pieces = Tail(fp)]
                  ELSE IF lp = <<>> THEN [s1 EXCEPT !.exc = "IndexError"]
                  ELSE [s1 EXCEPT !.first_pieces = <<lp[1]>>, !.last_pieces = Tail(lp)]
          ELSE s0

\* Lines 444-458 for one side: a one- or two-word suffix at its trailing edge
\* (case-sensitive vocabulary only).
TrailingSuffix(ps, side) ==
  IF ~Live(ps) \/ ps[side] = <<>> THEN ps
  ELSE LET l == ps[side]
       IN IF InList(l[Len(l)], SUFFIXES)
          THEN [Assign(ps, "suffix", l[Len(l)]) EXCEPT ![side] = DropLast(l, 1)]
          ELSE IF InList(Join(LastN(l, 2), <<SP>>), SUFFIXES)
          THEN [Assign(ps, "suffix", Join(LastN(l, 2), <<SP>>))
                  EXCEPT ![side] = DropLast(l, 2)]
          ELSE ps

\* Lines 462-468: a one- or two-word prefix at the head of last_pieces.
LeadingPrefix(ps) ==
  IF ~Live(ps) \/ ps.last_pieces = <<>> THEN ps
  ELSE LET l == ps.last_pieces
       IN IF InList(l[1], LAST_PREFIXES)
          THEN [Assign(ps, "last_prefix", l[1]) EXCEPT !.last_pieces = Tail(l)]
          ELSE IF InList(Join(FirstN(l, 2), <<SP>>), LAST_PREFIXES)
          THEN [Assign(ps, "last_prefix", Join(FirstN(l, 2), <<SP>>))
                  EXCEPT !.last_pieces = From(l, 3)]
          ELSE ps

\* Lines 470-476: a one- or two-word prefix at the tail of first_pieces.
TrailingPrefix(ps) ==
  IF ~Live(ps) \/ ps.first_pieces = <<>> THEN ps
  ELSE LET l == ps.first_pieces
       IN IF InList(l[Len(l)], LAST_PREFIXES)
          THEN [Assign(ps, "last_prefix", l[Len(l)]) EXCEPT !.first_pieces = DropLast(l, 1)]
          ELSE IF InList(Join(LastN(l, 2), <<SP>>), LAST_PREFIXES)
          THEN [Assign(ps, "last_prefix", Join(LastN(l, 2), <<SP>>))
                  EXCEPT !.first_pieces = DropLast(l, 2)]
          ELSE ps

\* No inversion: the parts stay as the comma gave them (mutant of Inversion).
Inversion_Never(ps) == ps

\* Lines 478-489: "Hildegard, of Bingen": the first part starts with a
\* prefix, so the two parts are swapped and the prefix taken.
Inversion(ps) ==
  IF ~Live(ps) \/ ps.first_pieces = <<>> THEN ps
  ELSE LET f == ps.first_pieces
           sw == [ps EXCEPT !.last_pieces = f, !.first_pieces = ps.last_pieces]
       IN IF InList(f[1], LAST_PREFIXES)
          THEN [Assign(sw, "last_prefix", f[1]) EXCEPT !.last_pieces = Tail(f)]
          ELSE IF InList(Join(FirstN(f, 2), <<SP>>), LAST_PREFIXES)
          THEN [Assign(sw, "last_prefix", Join(FirstN(f, 2), <<SP>>))
                  EXCEPT !.last_pieces = From(f, 3)]
          ELSE ps

\* FinalPhase that keeps every word of the first part in first_name (mutant
\* of FinalPhase).
FinalPhase_NoMiddle(ps) ==
  IF ~Live(ps) THEN ps
  ELSE IF ps.last_pieces = <<>> /\ ps.first_pieces = <<>>
  THEN [ps EXCEPT !.exc = "AssertionError"]
  ELSE IF ps.last_pieces = <<>>
  THEN [Assign(ps, IF ps.person.last_prefix # <<>> THEN "last_name" ELSE "first_name",
               Join(ps.first_pieces, <<SP>>)) EXCEPT !.ret = "person"]
  ELSE IF ps.first_pieces = <<>>
  THEN [Assign(ps, "last_name", Join(ps.last_pieces, <<SP>>)) EXCEPT !.ret = "person"]
  ELSE [Assign(Assign(ps, "first_name", Join(ps.first_pieces, <<SP>>)),
               "last_name", Join(ps.last_pieces, <<SP>>)) EXCEPT !.ret = "person"]

\* Lines 491-537: set the name fields from what is left.
FinalPhase(ps) ==
  IF ~Live(ps) THEN ps
  ELSE LET l == ps.last_pieces
           f == ps.first_pieces
           Ret(s) == IF s.exc # "" THEN s ELSE [s EXCEPT !.ret = "person"]
       IN IF l = <<>> /\ f = <<>> THEN [ps EXCEPT !.exc = "AssertionError"]
          ELSE IF l = <<>>
          THEN IF ps.person.last_prefix # <<>>
               THEN Ret(Assign(ps, "last_name", Join(f, <<SP>>)))
               ELSE Ret(Assign(ps, "first_name", Join(f, <<SP>>)))
          ELSE IF f = <<>> THEN Ret(Assign(ps, "last_name", Join(l, <<SP>>)))
          ELSE LET s1 == Assign(ps, "first_name", f[1])
                   s2 == IF Len(f) > 1 /\ s1.exc = ""
                         THEN Assign(s1, "middle_name", Join(Tail(f), <<SP>>))
                         ELSE s1
                   \* line 528 asserts middle_name before either assignment
                   s3 == IF Len(f) > 1 /\ ps.person.middle_name # <<>>
                         THEN [ps EXCEPT !.exc = "AssertionError"] ELSE s2
               IN IF s3.exc # "" THEN s3
                  ELSE Ret(Assign([s3 EXCEPT !.first_pieces = Tail(f)],
                                  "last_name", Join(l, <<SP>>)))

\* parse_comp_name: the working state after the whole routine.
ParseRun(comp_name, disamb) ==
  FinalPhase(Inversion(TrailingPrefix(LeadingPrefix(
    TrailingSuffix(TrailingSuffix(
      SplitParts(PieceCount(PieceSuffix(PiecePrefix(
        ParseStart(comp_name, disamb))))),
      "first_pieces"), "last_pieces")))))

\* What a parser call gives its caller: a Person ("person"), None ("none") or
\* an exception ("raise", with exc naming it).
ParseResult(ps) ==
  [kind |-> IF ps.exc # "" THEN "raise" ELSE ps.ret,
   exc |-> ps.exc,
   person |-> IF ps.exc = "" /\ ps.ret = "person" THEN ps.person ELSE NewPerson]

NoneResult == [kind |-> "none", exc |-> "", person |-> NewPerson]

\* parse_comp_name(comp_name, disamb)
parse_comp_name(comp_name, disamb) == ParseResult(ParseRun(comp_name, disamb))

\* -------------------------------------- parse_comp_full_name (refdata.py)

\* pieces[-1] + ', ' + ' '.join(pieces[:-1])
LastToFront(pieces) ==
  pieces[Len(pieces)] \o <<COMMA, SP>> \o Join(DropLast(pieces, 1), <<SP>>)

\* Positions in LAST_PREFIXES of the prefixes found as ' pfx ' in s.
EmbeddedPrefixes(s) ==
  {k \in DOMAIN LAST_PREFIXES : RFind(s, <<SP>> \o LAST_PREFIXES[k] \o <<SP>>) > 0}

\* Lines 556-584: the reordering of a name that holds no comma (any more),
\* as the by-last string handed to parse_comp_name; <<>> stands for the
\* IndexError of pieces[0] on a blank name.
Reorder(s) ==
  IF EmbeddedPrefixes(s) # {}
  THEN LET pfx == LAST_PREFIXES[Min(EmbeddedPrefixes(s))]
           idx == RFind(s, <<SP>> \o pfx \o <<SP>>)
       IN SubSeq(s, 1, idx - 1) \o <<COMMA>> \o From(s, idx)
  ELSE LET pieces == SplitWs(s)
       IN IF Len(pieces) = 0 THEN <<>>
          ELSE IF Len(pieces) = 1 THEN s
          ELSE IF InList(pieces[1], TITLES) THEN LastToFront(pieces)
          ELSE IF Len(pieces) > 2 /\ InList(pieces[Len(pieces)], SUFFIXES)
          THEN LastToFront(DropLast(pieces, 1)) \o <<COMMA, SP>> \o pieces[Len(pieces)]
          ELSE IF Len(pieces) > 3 /\ InList(Join(LastN(pieces, 2), <<SP>>), SUFFIXES)
          THEN LastToFront(DropLast(pieces, 2)) \o <<COMMA, SP>>
                 \o Join(LastN(pieces, 2), <<SP>>)
          ELSE LastToFront(pieces)

\* parse_comp_full_name(comp_name, disamb)
parse_comp_full_name(comp_name, disamb) ==
  LET idx == RFind(comp_name, <<COMMA>>)
      cut == SubSeq(comp_name, 1, idx - 1) \o From(comp_name, idx + 1)
      go(s) == IF SplitWs(s) = <<>> /\ EmbeddedPrefixes(s) = {}
               THEN [kind |-> "raise", exc |-> "IndexError", person |-> NewPerson]
               ELSE parse_comp_name(Reorder(s), disamb)
  IN IF idx > 0
     THEN IF ~InList(Strip(From(comp_name, idx + 1)), SUFFIXES)
          THEN parse_comp_name(comp_name, disamb)
          ELSE IF Find(cut, <<COMMA>>) > 0 THEN NoneResult
          ELSE go(cut)
     ELSE go(comp_name)

\* -------------------------------------------- parse_comp_str (refdata.py)

StartsWithLetter(a) == a \notin NoLetterStart

EndsWithLetter(a) == a \notin NoLetterEnd

\* A non-empty run of [0-9-] characters.
IsYearRun(t) == t # <<>> /\ \A i \in DOMAIN t : t[i] \in DigitAtoms \cup {HYPHEN}

\* Position of the last space of s, 0 when there is none.
LastSpace(s) == RFind(s, <<SP>>)

\* Where group 2 of a rule starts, given the position j of the space that
\* opens the annotation: the optional comma before it belongs to group 2
\* when that leaves group 1 (.+?) non-empty.  0: group 1 would be empty.
Group2Start(s, j) ==
  IF j >= 3 /\ s[j - 1] = COMMA THEN j - 1
  ELSE IF j >= 2 THEN j
  ELSE 0

\* The floruit rule never matching (mutant of Rule1At).
Rule1At_Never(s) == 0

\* rule1 = (.+?)(,? fl\. ([0-9-]+(\-[0-9]+)?)) as a full match: the position
\* of the space before "fl.", 0 when the rule does not match.
Rule1At(s) ==
  LET k == LastSpace(s)
  IN IF k >= 3 /\ s[k - 1] = "fl." /\ s[k - 2] = SP /\ IsYearRun(From(s, k + 1))
        /\ Group2Start(s, k - 2) > 0
     THEN k - 2 ELSE 0

\* Position in t of its last hyphen, 0 when there is none.
LastHyphen(t) == RFind(t, <<HYPHEN>>)

\* rule2 = (.+?)(,? (([0-9-]+)\-([0-9]+)?)) as a full match: the position of
\* the space before the years, 0 when the rule does not match.
Rule2At(s) ==
  LET k == LastSpace(s)
      t == From(s, k + 1)
  IN IF k >= 1 /\ IsYearRun(t) /\ LastHyphen(t) >= 2 /\ Group2Start(s, k) > 0
     THEN k ELSE 0

\* re.sub(r'(\pL)\,(\pL)', r'\1, \2', s): i is the atom examined, consumed
\* tells that the letter before position i was taken by the previous match
\* (matches do not overlap).
RECURSIVE FixCommas(_, _, _)
FixCommas(s, i, consumed) ==
  IF i > Len(s) THEN <<>>
  ELSE IF s[i] = COMMA /\ i > 1 /\ i < Len(s) /\ ~consumed
          /\ EndsWithLetter(s[i - 1]) /\ StartsWithLetter(s[i + 1])
  THEN <<COMMA, SP, s[i + 1]>> \o FixCommas(s, i + 2, s[i + 1] \in SingleLetterAtoms)
  ELSE <<s[i]>> \o FixCommas(s, i + 1, FALSE)

\* Lines 353-372: the alternate comp_str; exc is the exception of line 372,
\* where `pieces` is read in the branch that never assigned it.
AltCompStr(comp_name, addl_info, by_last) ==
  IF addl_info = <<>> THEN [alt |-> <<>>, exc |-> ""]
  ELSE IF by_last
  THEN LET pieces == SplitMax(comp_name, <<COMMA, SP>>, 2)
       IN [exc |-> "",
           alt |-> IF Len(pieces) = 2
                   THEN pieces[2] \o <<SP>> \o pieces[1] \o addl_info
                   ELSE IF Len(pieces) > 2
                   THEN pieces[2] \o <<SP>> \o pieces[1] \o <<COMMA, SP>>
                          \o pieces[3] \o addl_info
                   ELSE IF addl_info[1] = SP
                   THEN pieces[1] \o <<COMMA>> \o addl_info
                   ELSE <<>>]
  ELSE IF Find(comp_name, <<SP>>) = 0 /\ addl_info[1] = SP
  THEN [alt |-> <<>>, exc |-> "UnboundLocalError"]
  ELSE [alt |-> <<>>, exc |-> ""]

\* parse_comp_str(comp_str, by_last): (comp_name, disamb, alt_comp_str, meta),
\* meta as the list of its (key, value) items in insertion order.
parse_comp_str(comp_str, by_last) ==
  LET r1 == Rule1At(comp_str)
      r2 == Rule2At(comp_str)
      j == IF r1 > 0 THEN r1 ELSE r2
      g2 == IF j > 0 THEN Group2Start(comp_str, j) ELSE 0
      name0 == IF j > 0 THEN SubSeq(comp_str, 1, g2 - 1) ELSE comp_str
      addl_info == IF j > 0 THEN From(comp_str, g2) ELSE <<>>
      years == From(comp_str, LastSpace(comp_str) + 1)
      h == LastHyphen(years)
      meta == IF r1 > 0 THEN << <<"floruit", years>> >>
              ELSE IF r2 > 0
              THEN << <<"dates", years>>, <<"born", SubSeq(years, 1, h - 1)>> >>
                     \o (IF From(years, h + 1) # <<>>
                         THEN << <<"died", From(years, h + 1)>> >> ELSE <<>>)
              ELSE <<>>
      alt == AltCompStr(name0, addl_info, by_last)
      fixed == FixCommas(name0, 1, FALSE)
  IN [comp_name |-> IF fixed # <<>> /\ fixed[Len(fixed)] = COMMA
                    THEN RStrip(fixed, {COMMA}) ELSE fixed,
      disamb |-> LStrip(addl_info, {COMMA, SP}),
      alt_comp_str |-> alt.alt,
      meta |-> meta,
      exc |-> IF alt.exc # "" THEN alt.exc
              ELSE IF fixed = <<>> THEN "IndexError" ELSE ""]

\* ------------------------------------------------------ segment files

\* One composer row of a composer-category page (td.views-field-name and the
\* href of td.views-field-count).
CompRow(comp_str, link) ==
  [has_composer |-> TRUE, comp_str |-> comp_str, link |-> link, title |-> <<>>]

\* One composition item of a work-category page with its composer div.
WorkItem(comp_str, title) ==
  [has_composer |-> TRUE, comp_str |-> comp_str, link |-> <<>>, title |-> title]

\* A composition item without a composer div.
WorkItemNoComposer(title) ==
  [has_composer |-> FALSE, comp_str |-> <<>>, link |-> <<>>, title |-> title]

\* The segment files on disk (refdata/<source>/<category>/...), each with the
\* source it was fetched for, the category whose loader reads it and its
\* items in document order.
Files ==
  << [source |-> "clmu", cat |-> "composer",
      items |-> << CompRow(<<"Bach", COMMA, SP, "Johann">>, W("/c1")),
                   CompRow(<<"BACH", COMMA, SP, "Johann">>, W("/c2")) >>],
     [source |-> "clmu", cat |-> "composer",
      items |-> << CompRow(<<"Fauré", COMMA, SP, "Gabriel", COMMA, SP, "1845", HYPHEN, "1924">>,
                           W("/c3")),
                   CompRow(<<"Smith", COMMA, SP, "John", COMMA, SP, "Paul">>, W("/c4")),
                   CompRow(<<"Bach", COMMA, SP, "Johann">>, W("/c1")) >>],
     [source |-> "clmu", cat |-> "work",
      items |-> << WorkItem(<<"Johann", SP, "Bach">>, W("W1")) >>],
     [source |-> "clmu", cat |-> "work",
      items |-> << WorkItem(<<"johann", SP, "bach">>, W("W2")),
                   WorkItem(<<"Gabriel", SP, "Fauré">>, W("W3")),
                   WorkItem(<<"Gabriel", SP, "Fauré">>, W("W3")),
                   WorkItemNoComposer(W("W4")) >>],
     [source |-> "other", cat |-> "work",
      items |-> << WorkItem(<<"Johann", SP, "Bach">>, W("W1")),
                   WorkItem(<<"Smith", COMMA, SP, "John", COMMA, SP, "Paul">>, W("W5")) >>] >>

\* ------------------------------------------------------------ the store

VARIABLES
  Person,      \* rows of table person, in id order (id = position)
  PersonName,  \* rows of table person_name
  PersonMeta,  \* rows of table person_meta
  Work,        \* rows of table work
  Conflict,    \* rows of table conflict
  Failure,     \* rows of table failure
  run,         \* the load in progress: position, arguments and locals
  loads,       \* number of loads started so far (also the load timestamp)
  last,        \* history: the previous load (file, dryrun, how it ended, store at its start)
  parse        \* the parser exercised on its own (specification SpecParse)

vars == <<Person, PersonName, PersonMeta, Work, Conflict, Failure, run, loads, last, parse>>

\* The six tables as one value.
Store ==
  [Person |-> Person, PersonName |-> PersonName, PersonMeta |-> PersonMeta,
   Work |-> Work, Conflict |-> Conflict, Failure |-> Failure]

EmptyStore ==
  [Person |-> <<>>, PersonName |-> <<>>, PersonMeta |-> <<>>,
   Work |-> <<>>, Conflict |-> <<>>, Failure |-> <<>>]

\* EntityOp (schema.py): the members the enumeration defines.
EntityOp == [PARSE |-> "parse", FIND |-> "find", INSERT |-> "insert", UPDATE |-> "update"]

\* add_composer naming the member the loaders name (mutant of OpAddComposer).
OpAddComposer_Load == "LOAD"

\* The member named at add_composer's Conflict.create (EntityOp.INSERT).
OpAddComposer == "INSERT"

\* The member named at every Failure.create of the loaders (EntityOp.LOAD).
OpLoadFailure == "LOAD"

\* The member named at load_work's Conflict.create (EntityOp.LOAD).
OpWorkConflict == "LOAD"

\* The unique index (name, disamb) of Person left out (mutant of PersonKeyFree).
PersonKeyFree_NoIndex(persons, p) == TRUE

\* Person.Meta.indexes (('name', 'disamb'), True): may p be inserted?
PersonKeyFree(persons, p) ==
  \A i \in DOMAIN persons : ~(persons[i].name = p.name /\ persons[i].disamb = p.disamb)

\* The unique index (name_str, source) left out (mutant of NameKeyFree).
NameKeyFree_NoIndex(names, name_str, source) == TRUE

\* PersonName.Meta.indexes (('name_str', 'source'), True)
NameKeyFree(names, name_str, source) ==
  \A i \in DOMAIN names : ~(names[i].name_str = name_str /\ names[i].source = source)

\* PersonMeta.Meta.indexes (('person', 'key', 'source'), True)
MetaKeyFree(metas, person, key, source) ==
  \A i \in DOMAIN metas :
    ~(metas[i].person = person /\ metas[i].key = key /\ metas[i].source = source)

\* Work.Meta.indexes (('composer', 'name', 'disamb'), True)
WorkKeyFree(works, w) ==
  \A i \in DOMAIN works :
    ~(works[i].composer = w.composer /\ works[i].name = w.name /\ works[i].disamb = w.disamb)

\* Person.get(Person.name == name, Person.disamb == disamb): the id.
PersonGet(persons, name, disamb) ==
  CHOOSE i \in DOMAIN persons : persons[i].name = name /\ persons[i].disamb = disamb

\* ------------------------------------------------------ the load in progress

\* LoadCtx of the run (source_date, a date stamp of the file, is left out).
Ctx(r) == [file |-> r.file, source |-> r.source, load_ts |-> r.load_ts]

IdleRun ==
  [pc |-> "idle", file |-> 0, source |-> "", cat |-> "", dryrun |-> FALSE,
   load_ts |-> 0, items |-> <<>>, i |-> 0, ins |-> 0, upd |-> 0, skip |-> 0,
   comp_str |-> <<>>, comp_name |-> <<>>, disamb |-> <<>>, alt_comp_str |-> <<>>,
   meta |-> <<>>, parsed |-> "", comp_person |-> NewPerson, person_id |-> 0,
   via |-> "", new_comp |-> FALSE, comp_names |-> <<>>, integrity |-> "",
   k |-> 0, exc |-> "", mode |-> "", ref |-> EmptyStore]

\* A state of the loader: the store and the run.
SR(st, r) == [st |-> st, run |-> r]

\* An exception leaves the loader: the load is over.
Raise(st, r, exc) == SR(st, [r EXCEPT !.pc = "done", !.exc = exc])

\* The top of the item loop: the next item, or the return with the counts.
Continue(st, r) ==
  IF r.i >= Len(r.items) THEN SR(st, [r EXCEPT !.pc = "done"])
  ELSE SR(st, [r EXCEPT !.i = r.i + 1,
                        !.pc = IF r.cat = "composer" THEN "c_parse" ELSE "find",
                        !.comp_str = r.items[r.i + 1].comp_str,
                        !.comp_name = <<>>, !.disamb = <<>>, !.alt_comp_str = <<>>,
                        !.meta = <<>>, !.parsed = "", !.comp_person = NewPerson,
                        !.person_id = 0, !.via = "", !.new_comp = FALSE,
                        !.comp_names = <<>>, !.integrity = "", !.k = 0])

\* Failure.create(entity_name=..., entity_str=..., entity_info={'ctx': ctx},
\* operation=EntityOp.<member>, ...): naming a member the enumeration does
\* not define raises AttributeError before anything is written.
FailureCreate(st, r, entity_name, entity_str, member, reason) ==
  IF member \notin DOMAIN EntityOp THEN [ok |-> FALSE, st |-> st]
  ELSE [ok |-> TRUE,
        st |-> [st EXCEPT !.Failure =
                  Append(@, [entity_name |-> entity_name, entity_str |-> entity_str,
                             entity_info |-> [ctx |-> Ctx(r)],
                             operation |-> EntityOp[member],
                             reason |-> reason])]]

\* Conflict.create(entity_name=..., entity_str=..., entity_info=...,
\* operation=EntityOp.<member>, reason="duplicate", ...)
ConflictCreate(st, r, entity_name, entity_str, data, member) ==
  IF member \notin DOMAIN EntityOp THEN [ok |-> FALSE, st |-> st]
  ELSE [ok |-> TRUE,
        st |-> [st EXCEPT !.Conflict =
                  Append(@, [entity_name |-> entity_name, entity_str |-> entity_str,
                             entity_info |-> [data |-> data, ctx |-> Ctx(r), meta |-> r.meta],
                             operation |-> EntityOp[member],
                             reason |-> "duplicate"])]]

\* ------------------------------------------------- resolver (refdata.py)

\* PersonName.create(name_str=..., name_type=..., source=ctx.source,
\* person=..., person_res=...) inside try / except IntegrityError: pass.
\* PersonName.save fills name_str_norm.
NameCreate(st, r, name_str, name_type, person_res) ==
  IF NameKeyFree(st.PersonName, name_str, r.source)
  THEN [ok |-> TRUE,
        st |-> [st EXCEPT !.PersonName =
                  Append(@, [name_str |-> name_str, name_str_norm |-> norm(name_str),
                             name_type |-> name_type, source |-> r.source,
                             person |-> r.person_id, person_res |-> person_res])]]
  ELSE [ok |-> FALSE, st |-> st]

\* The first position after k of a name the loop does not skip
\* ("if not name_str or name_str in comp_names: continue"); past the end of
\* the list when there is none.
NextName(names, comp_names, k) ==
  LET todo == {j \in DOMAIN names :
                 j > k /\ names[j][2] # <<>> /\ ~InList(names[j][2], comp_names)}
  IN IF todo = {} THEN Len(names) + 1 ELSE Min(todo)

\* other_names of add_composer (lines 626-631), for the saved Person.
AddComposerNames(p) ==
  << <<"name", p.name>>, <<"short_name", short_name(p)>>,
     <<"var_name", var_name(p)>>, <<"alt_name", p.alt_name>>,
     <<"alt_short_name", alt_short_name(p)>>, <<"alt_var_name", alt_var_name(p)>> >>

\* other_names of load_composer / load_work (lines 700-702, 825-827).
LoaderNames(r) ==
  << <<"comp_str", r.comp_str>>, <<"comp_name", r.comp_name>>,
     <<"alt_comp_str", r.alt_comp_str>> >>

\* PersonName rows of a source whose name_str is s.
ExactRows(names, s, source) ==
  {i \in DOMAIN names : names[i].name_str = s /\ names[i].source = source}

\* PersonName rows of a source whose normalized form is norm(s).
NormRows(names, s, source) ==
  {i \in DOMAIN names : names[i].name_str_norm = norm(s) /\ names[i].source = source}

\* find_composer whose save also clears alt_name (mutant of PromoteComposer).
PromoteComposer_ClearsAltName(st, id) ==
  IF st.Person[id].is_composer THEN st
  ELSE [st EXCEPT !.Person[id] = [@ EXCEPT !.is_composer = TRUE, !.alt_name = <<>>]]

\* find_composer, lines 744-747: "if not comp.is_composer:
\* comp.is_composer = True; comp.save()".
PromoteComposer(st, id) ==
  IF st.Person[id].is_composer THEN st
  ELSE [st EXCEPT !.Person[id] = PersonPreSave([@ EXCEPT !.is_composer = TRUE])]

\* find_composer without the exact lookup (mutant of find_composer).
find_composer_norm_only(st, source, comp_name) ==
  LET pnames == NormRows(st.PersonName, comp_name, source)
  IN IF pnames = {} THEN [kind |-> "none", id |-> 0, via |-> "", st |-> st]
     ELSE IF Cardinality(pnames) # 1
     THEN [kind |-> "raise", id |-> 0, via |-> "", st |-> st]
     ELSE [kind |-> "found", id |-> st.PersonName[Min(pnames)].person, via |-> "norm",
           st |-> PromoteComposer(st, st.PersonName[Min(pnames)].person)]

\* find_composer without the normalized lookup (mutant of find_composer).
find_composer_exact_only(st, source, comp_name) ==
  LET pnames == ExactRows(st.PersonName, comp_name, source)
  IN IF pnames = {} THEN [kind |-> "none", id |-> 0, via |-> "", st |-> st]
     ELSE [kind |-> "found", id |-> st.PersonName[Min(pnames)].person, via |-> "exact",
           st |-> PromoteComposer(st, st.PersonName[Min(pnames)].person)]

\* find_composer that takes the first hit instead of asserting that there
\* is one hit only (mutant of find_composer).
find_composer_first_hit(st, source, comp_name) ==
  LET exact == ExactRows(st.PersonName, comp_name, source)
      pnames == IF exact # {} THEN exact ELSE NormRows(st.PersonName, comp_name, source)
  IN IF pnames = {} THEN [kind |-> "none", id |-> 0, via |-> "", st |-> st]
     ELSE [kind |-> "found", id |-> st.PersonName[Min(pnames)].person,
           via |-> IF exact # {} THEN "exact" ELSE "norm",
           st |-> PromoteComposer(st, st.PersonName[Min(pnames)].person)]

\* find_composer(ctx, comp_name): "found" with the Person's id and the lookup
\* that hit, "none" for None, "raise" for the failed assert len(pnames) == 1.
\* A Person found without the is_composer flag is saved with it.
find_composer(st, source, comp_name) ==
  LET exact == ExactRows(st.PersonName, comp_name, source)
      pnames == IF exact # {} THEN exact ELSE NormRows(st.PersonName, comp_name, source)
  IN IF pnames = {} THEN [kind |-> "none", id |-> 0, via |-> "", st |-> st]
     ELSE IF Cardinality(pnames) # 1
     THEN [kind |-> "raise", id |-> 0, via |-> "", st |-> st]
     ELSE [kind |-> "found", id |-> st.PersonName[Min(pnames)].person,
           via |-> IF exact # {} THEN "exact" ELSE "norm",
           st |-> PromoteComposer(st, st.PersonName[Min(pnames)].person)]

\* ------------------------------------------------ the loaders, step by step

\* Into the name loop of add_composer, or past it when it has nothing to do.
EnterNames(st, r) ==
  LET k == NextName(AddComposerNames(r.comp_person), r.comp_names, 0)
  IN IF k > Len(AddComposerNames(r.comp_person))
     THEN SR(st, [r EXCEPT !.pc = "after_add"])
     ELSE SR(st, [r EXCEPT !.pc = "names", !.k = k])

\* After the name loop of a loader: the next row (load_composer), or on to
\* the Work (load_work).
AfterLoaderNames(st, r) ==
  IF r.cat = "composer" THEN Continue(st, r) ELSE SR(st, [r EXCEPT !.pc = "work"])

\* Into the name loop of a loader, or past it.
EnterLoaderNames(st, r) ==
  LET k == NextName(LoaderNames(r), r.comp_names, 0)
  IN IF k > Len(LoaderNames(r)) THEN AfterLoaderNames(st, r)
     ELSE SR(st, [r EXCEPT !.pc = "onames", !.k = k])

\* What both loaders do with the parser's answer (lines 669-686, 791-816).
Parsed(st, r, pcs, pr) ==
  LET r1 == [r EXCEPT !.comp_name = pcs.comp_name, !.disamb = pcs.disamb,
                      !.alt_comp_str = pcs.alt_comp_str, !.parsed = pr.kind,
                      !.meta = IF r.cat = "composer" /\ r.items[r.i].link # <<>>
                               THEN pcs.meta \o << <<"clmu_link", r.items[r.i].link>> >>
                               ELSE pcs.meta]
  IN IF pr.kind = "raise" THEN Raise(st, r1, pr.exc)
     ELSE IF r.dryrun
     THEN IF pr.kind = "person" /\ NameAssertFails(pr.person, NAME_COMPS)
          THEN Raise(st, r1, "AssertionError")
          ELSE Continue(st, r1)
     ELSE IF pr.kind = "none"
     THEN LET f == FailureCreate(st, r1, "Person", pcs.comp_name, OpLoadFailure,
                                 "could not parse")
              g == FailureCreate(f.st, r1, "Work", r.items[r.i].title, OpLoadFailure,
                                 "no composer rec")
          IN IF ~f.ok THEN Raise(st, r1, "AttributeError")
             ELSE IF r.cat = "composer" THEN Continue(f.st, [r1 EXCEPT !.skip = @ + 1])
             ELSE IF ~g.ok THEN Raise(f.st, r1, "AttributeError")
             ELSE Continue(g.st, [r1 EXCEPT !.skip = @ + 1])
     ELSE SR(st, [r1 EXCEPT !.pc = "save", !.comp_person = pr.person])

\* load_composer, lines 662-686: parse the row.
StepCParse(st, r) ==
  LET pcs == parse_comp_str(r.comp_str, TRUE)
  IN IF pcs.exc # "" THEN Raise(st, r, pcs.exc)
     ELSE Parsed(st, r, pcs, parse_comp_name(pcs.comp_name, pcs.disamb))

\* load_work, lines 760-788: the item's fields and the quick match.
StepFind(st, r) ==
  IF ~r.items[r.i].has_composer
  THEN LET f == FailureCreate(st, r, "Work", r.items[r.i].title, OpLoadFailure,
                              "no composer div")
       IN IF f.ok THEN Continue(f.st, r) ELSE Raise(st, r, "AttributeError")
  ELSE LET fc == find_composer(st, r.source, r.comp_str)
           r1 == [r EXCEPT !.meta = << <<"short_title", r.items[r.i].title>> >>]
       IN IF fc.kind = "raise" THEN Raise(st, r1, "AssertionError")
          ELSE IF fc.kind = "none" THEN SR(st, [r1 EXCEPT !.pc = "w_parse"])
          ELSE SR(fc.st, [r1 EXCEPT !.pc = "work", !.person_id = fc.id, !.via = fc.via])

\* load_work, lines 790-816: parse the composer that was not found.
StepWParse(st, r) ==
  LET pcs == parse_comp_str(r.comp_str, FALSE)
  IN IF pcs.exc # "" THEN Raise(st, r, pcs.exc)
     ELSE Parsed(st, r, pcs, parse_comp_full_name(pcs.comp_name, pcs.disamb))

\* add_composer, lines 589-611: save the Person, or record the Conflict.
StepSave(st, r) ==
  LET p == PersonPreSave([r.comp_person EXCEPT !.is_composer = TRUE, !.source = r.source])
      r1 == [r EXCEPT !.comp_person = p]
  IN IF r.comp_person.name = <<>> /\ NameAssertFails(r.comp_person, NAME_COMPS)
     THEN Raise(st, r, "AssertionError")
     ELSE IF PersonKeyFree(st.Person, p)
     THEN SR([st EXCEPT !.Person = Append(@, p)],
             [r1 EXCEPT !.pc = "meta", !.new_comp = TRUE, !.person_id = Len(st.Person) + 1])
     ELSE LET c == ConflictCreate(st, r1, "Person", p.name, p, OpAddComposer)
          IN IF c.ok THEN SR(c.st, [r1 EXCEPT !.pc = "after_add", !.integrity = "Person"])
             ELSE Raise(st, [r1 EXCEPT !.integrity = "Person"], "AttributeError")

\* add_composer, lines 613-622: PersonMeta.insert_many(meta_items).execute().
\* An empty list is taken to insert nothing.
StepMeta(st, r) ==
  LET rows == [j \in DOMAIN r.meta |->
                 [person |-> r.person_id, key |-> r.meta[j][1], value |-> r.meta[j][2],
                  source |-> r.source]]
  IN IF \A j \in DOMAIN rows :
          MetaKeyFree(st.PersonMeta, rows[j].person, rows[j].key, rows[j].source)
     THEN EnterNames([st EXCEPT !.PersonMeta = @ \o rows], r)
     ELSE Raise(st, r, "IntegrityError")

\* add_composer, lines 632-647: one PersonName.create of the loop.
StepNames(st, r) ==
  LET names == AddComposerNames(r.comp_person)
      c == NameCreate(st, r, names[r.k][2], names[r.k][1], "add_composer")
      cn == IF c.ok THEN Append(r.comp_names, names[r.k][2]) ELSE r.comp_names
      k == NextName(names, cn, r.k)
  IN IF k > Len(names) THEN SR(c.st, [r EXCEPT !.pc = "after_add", !.comp_names = cn])
     ELSE SR(c.st, [r EXCEPT !.k = k, !.comp_names = cn])

\* The loader not counting the row whose Person was already there (mutant of
\* StepAfterAdd).
StepAfterAdd_NoUpdate(st, r) ==
  IF r.new_comp
  THEN EnterLoaderNames(st, [r EXCEPT !.ins = IF r.cat = "composer" THEN @ + 1 ELSE @])
  ELSE EnterLoaderNames(st,
         [r EXCEPT !.person_id = PersonGet(st.Person, r.comp_person.name, r.comp_person.disamb)])

\* Back in the loader (lines 689-698, 819-823): count the row, or fall back
\* to the Person that holds the key.
StepAfterAdd(st, r) ==
  IF r.new_comp
  THEN EnterLoaderNames(st, [r EXCEPT !.ins = IF r.cat = "composer" THEN @ + 1 ELSE @])
  ELSE EnterLoaderNames(st,
         [r EXCEPT !.person_id = PersonGet(st.Person, r.comp_person.name, r.comp_person.disamb),
                   !.upd = IF r.cat = "composer" THEN @ + 1 ELSE @])

\* Lines 703-717, 828-842: one PersonName.create of the loader's loop.
StepLoaderNames(st, r) ==
  LET names == LoaderNames(r)
      c == NameCreate(st, r, names[r.k][2], names[r.k][1],
                      IF r.cat = "composer" THEN "load_composer" ELSE "load_work")
      k == NextName(names, r.comp_names, r.k)
  IN IF k > Len(names) THEN AfterLoaderNames(c.st, r)
     ELSE SR(c.st, [r EXCEPT !.k = k])

\* load_work that skips the Work of an item while the Conflict table holds
\* rows (mutant of StepWork).
StepWork_ReadsConflict(st, r) ==
  LET w == [composer |-> r.person_id, name |-> r.items[r.i].title, disamb |-> <<>>,
            work_title |-> r.items[r.i].title, source |-> r.source]
  IN IF r.dryrun THEN Continue(st, r)
     ELSE IF st.Conflict # <<>> THEN Continue(st, [r EXCEPT !.skip = @ + 1])
     ELSE IF WorkKeyFree(st.Work, w)
     THEN Continue([st EXCEPT !.Work = Append(@, w)], [r EXCEPT !.ins = @ + 1])
     ELSE LET c == ConflictCreate(st, r, "Work", w.name, w, OpWorkConflict)
          IN IF c.ok THEN Continue(c.st, [r EXCEPT !.integrity = "Work", !.upd = @ + 1])
             ELSE Raise(st, [r EXCEPT !.integrity = "Work"], "AttributeError")

\* load_work, lines 845-883: save the Work, or record the Conflict.
StepWork(st, r) ==
  LET w == [composer |-> r.person_id, name |-> r.items[r.i].title, disamb |-> <<>>,
            work_title |-> r.items[r.i].title, source |-> r.source]
  IN IF r.dryrun THEN Continue(st, r)
     ELSE IF WorkKeyFree(st.Work, w)
     THEN Continue([st EXCEPT !.Work = Append(@, w)], [r EXCEPT !.ins = @ + 1])
     ELSE LET c == ConflictCreate(st, r, "Work", w.name, w, OpWorkConflict)
          IN IF c.ok THEN Continue(c.st, [r EXCEPT !.integrity = "Work", !.upd = @ + 1])
             ELSE Raise(st, [r EXCEPT !.integrity = "Work"], "AttributeError")

\* One step of the load in progress.
Step(st, r) ==
  CASE r.pc = "c_parse" -> StepCParse(st, r)
    [] r.pc = "find" -> StepFind(st, r)
    [] r.pc = "w_parse" -> StepWParse(st, r)
    [] r.pc = "save" -> StepSave(st, r)
    [] r.pc = "meta" -> StepMeta(st, r)
    [] r.pc = "names" -> StepNames(st, r)
    [] r.pc = "after_add" -> StepAfterAdd(st, r)
    [] r.pc = "onames" -> StepLoaderNames(st, r)
    [] r.pc = "work" -> StepWork(st, r)
    [] OTHER -> SR(st, r)

\* The loader called on a file: load_func(ctx, data, dryrun), at its first item.
Call(st, f, dryrun, ts) ==
  Continue(st, [IdleRun EXCEPT !.file = f, !.source = Files[f].source,
                               !.cat = Files[f].cat, !.dryrun = dryrun,
                               !.load_ts = ts, !.items = Files[f].items])

\* The load run to its end without interruption.
RECURSIVE RunToEnd(_)
RunToEnd(sr) == IF sr.run.pc = "done" THEN sr ELSE RunToEnd(Step(sr.st, sr.run))

\* ------------------------------------------------------- the state machine

\* A store that holds a Person entered without the composer role (the schema
\* has the flags is_conductor and is_performer beside is_composer, and
\* find_composer tests "if not comp.is_composer"): the Person is known by
\* name to source "other" and has no PersonName under source "clmu".
SeededStore ==
  [EmptyStore EXCEPT
     !.Person = << [NewPerson EXCEPT !.name = <<"Johann", SP, "Bach">>,
                                     !.alt_name = <<"Bach", COMMA, SP, "Johann">>,
                                     !.first_name = W("Johann"),
                                     !.last_name = W("Bach"),
                                     !.source = "other"] >>,
     !.PersonName = << [name_str |-> <<"Johann", SP, "Bach">>,
                        name_str_norm |-> norm(<<"Johann", SP, "Bach">>),
                        name_type |-> "name", source |-> "other", person |-> 1,
                        person_res |-> "manual"] >>]

NoLast == [file |-> 0, dryrun |-> FALSE, how |-> "none", start |-> EmptyStore]

ParseIdle ==
  [stage |-> "idle", raw |-> <<>>, by_last |-> TRUE, comp_name |-> <<>>,
   disamb |-> <<>>, res |-> NoneResult, re |-> NoneResult]

SetStore(st) ==
  /\ Person' = st.Person
  /\ PersonName' = st.PersonName
  /\ PersonMeta' = st.PersonMeta
  /\ Work' = st.Work
  /\ Conflict' = st.Conflict
  /\ Failure' = st.Failure

Init ==
  /\ \E st \in {EmptyStore, SeededStore} :
       /\ Person = st.Person
       /\ PersonName = st.PersonName
       /\ PersonMeta = st.PersonMeta
       /\ Work = st.Work
       /\ Conflict = st.Conflict
       /\ Failure = st.Failure
  /\ run = IdleRun
  /\ loads = 0
  /\ last = NoLast
  /\ parse = ParseIdle

\* How a load of file f relates to the load before it: the same load again
\* after that one ended ("rerun"), or after it was interrupted ("restart").
ModeOf(f, dryrun) ==
  IF last.file = f /\ last.dryrun = dryrun /\ last.how = "ended" THEN "rerun"
  ELSE IF last.file = f /\ last.dryrun = dryrun /\ last.how = "interrupted" THEN "restart"
  ELSE "first"

\* Refdata.load, lines 251-254: load_func(ctx, data, dryrun) on one file.
StartLoad ==
  /\ run.pc = "idle"
  /\ parse.stage = "idle"
  /\ loads < MaxLoads
  /\ \E f \in DOMAIN Files, dryrun \in BOOLEAN :
       run' = [Call(Store, f, dryrun, loads + 1).run EXCEPT
                 !.mode = ModeOf(f, dryrun),
                 !.ref = IF ModeOf(f, dryrun) = "restart" THEN last.start ELSE Store]
  /\ loads' = loads + 1
  /\ UNCHANGED <<Person, PersonName, PersonMeta, Work, Conflict, Failure, last, parse>>

\* The run takes the step sr.
Take(sr) ==
  /\ SetStore(sr.st)
  /\ run' = sr.run
  /\ UNCHANGED <<loads, last, parse>>

ParseRow == run.pc = "c_parse" /\ Take(StepCParse(Store, run))

FindComposer == run.pc = "find" /\ Take(StepFind(Store, run))

ParseComposer == run.pc = "w_parse" /\ Take(StepWParse(Store, run))

SavePerson == run.pc = "save" /\ Take(StepSave(Store, run))

InsertMeta == run.pc = "meta" /\ Take(StepMeta(Store, run))

AddName == run.pc = "names" /\ Take(StepNames(Store, run))

AfterAdd == run.pc = "after_add" /\ Take(StepAfterAdd(Store, run))

AddLoaderName == run.pc = "onames" /\ Take(StepLoaderNames(Store, run))

SaveWork == run.pc = "work" /\ Take(StepWork(Store, run))

\* The loader has returned its counts (Refdata.load logs them) or raised.
Finish ==
  /\ run.pc = "done"
  /\ run' = IdleRun
  /\ last' = [file |-> run.file, dryrun |-> run.dryrun, how |-> "ended", start |-> EmptyStore]
  /\ UNCHANGED <<Person, PersonName, PersonMeta, Work, Conflict, Failure, loads, parse>>

\* The process is stopped in the middle of a load: every statement already
\* executed is committed (no transaction spans them), nothing else happens.
Interrupt ==
  /\ run.pc \notin {"idle", "done"}
  /\ run' = IdleRun
  /\ last' = [file |-> run.file, dryrun |-> run.dryrun, how |-> "interrupted",
              start |-> run.ref]
  /\ UNCHANGED <<Person, PersonName, PersonMeta, Work, Conflict, Failure, loads, parse>>

Next ==
  \/ StartLoad
  \/ ParseRow
  \/ FindComposer
  \/ ParseComposer
  \/ SavePerson
  \/ InsertMeta
  \/ AddName
  \/ AfterAdd
  \/ AddLoaderName
  \/ SaveWork
  \/ Finish
  \/ Interrupt

Spec == Init /\ [][Next]_vars

\* ------------------------------------------- the parsers, run on their own

\* Raw composer strings as the catalog writes them: a last part, a given part
\* and an optional third field or dates.
LastParts ==
  { W("Bach"), W("Pliny"), W("Hildegard"), W("Smith"), W("Elgar"),
    <<"van", SP, "Beethoven">>, <<"van", SP, "der", SP, "Beek">>,
    W("van"), <<"van", COMMA, SP, "Beethoven">> }

GivenParts ==
  { W("Johann"), <<"Johann", SP, "Sebastian">>, <<"the", SP, "Elder">>,
    <<"of", SP, "Bingen">>, W("Sir"), W("Jr."), <<"Ludwig", SP, "van">>,
    <<"John", COMMA, SP, "Paul">>, <<"Jr.", COMMA, SP, "Johann">>,
    W("Ludwig") }

Tails ==
  { <<>>, <<COMMA, SP, "Jr.">>, <<COMMA, SP, "1845", HYPHEN, "1924">>,
    <<SP, "1845", HYPHEN>> }

\* Names with a floruit or a dates annotation, with and without the comma.
AnnotatedInputs ==
  { <<"Josquin", SP, "1450", HYPHEN, "1521">>,
    <<"Anonymous", SP, "fl.", SP, "1500">>,
    <<"Josquin", COMMA, SP, "fl.", SP, "1450", HYPHEN, "1521">> }

\* Names with commas that no space follows, and with trailing commas.
UnspacedInputs ==
  { <<"A", COMMA, "B", COMMA, "C">>,
    <<"Bach", COMMA, "Johann">>,
    <<"Jr.", COMMA, "Johann">>,
    <<"Bach", COMMA, SP, "Johann", COMMA>>,
    <<"Bach", COMMA, SP, "Johann", COMMA, COMMA>> }

ParseInputs ==
  { l \o <<COMMA, SP>> \o g \o t : l \in LastParts, g \in GivenParts, t \in Tails }
    \cup { l \o t : l \in {W("Josquin"), W("Hildegard")}, t \in Tails }
    \cup { <<COMMA, SP, "Jr.">> }
    \cup AnnotatedInputs
    \cup UnspacedInputs

InitParse ==
  /\ Person = <<>>
  /\ PersonName = <<>>
  /\ PersonMeta = <<>>
  /\ Work = <<>>
  /\ Conflict = <<>>
  /\ Failure = <<>>
  /\ run = IdleRun
  /\ loads = 0
  /\ last = NoLast
  /\ \E s \in ParseInputs, b \in BOOLEAN :
       parse = [ParseIdle EXCEPT !.stage = "chosen", !.raw = s, !.by_last = b]

\* parse_comp_str(comp_str, by_last)
SplitStr ==
  /\ parse.stage = "chosen"
  /\ LET pcs == parse_comp_str(parse.raw, parse.by_last)
     IN parse' = IF pcs.exc # "" THEN [parse EXCEPT !.stage = "raised"]
                 ELSE [parse EXCEPT !.stage = "split", !.comp_name = pcs.comp_name,
                                    !.disamb = pcs.disamb]
  /\ UNCHANGED <<Person, PersonName, PersonMeta, Work, Conflict, Failure, run, loads, last>>

\* parse_comp_name on a by-last name (load_composer), parse_comp_full_name on
\* a given-name-first one (load_work).
ParseName ==
  /\ parse.stage = "split"
  /\ parse' = [parse EXCEPT
                 !.stage = "named",
                 !.res = IF parse.by_last
                         THEN parse_comp_name(parse.comp_name, parse.disamb)
                         ELSE parse_comp_full_name(parse.comp_name, parse.disamb)]
  /\ UNCHANGED <<Person, PersonName, PersonMeta, Work, Conflict, Failure, run, loads, last>>

\* parse_comp_full_name on the full_name synthesized from the components.
Reparse ==
  /\ parse.stage = "named"
  /\ parse.res.kind = "person"
  /\ ~NameAssertFails(parse.res.person, NAME_COMPS)
  /\ parse' = [parse EXCEPT
                 !.stage = "reparsed",
                 !.re = parse_comp_full_name(full_name(parse.res.person), parse.disamb)]
  /\ UNCHANGED <<Person, PersonName, PersonMeta, Work, Conflict, Failure, run, loads, last>>

NextParse ==
  \/ SplitStr
  \/ ParseName
  \/ Reparse

SpecParse == InitParse /\ [][NextParse]_vars

\* ---------------------------------------------------------------- claims

\* The Person that add_composer hands to save(), as save() completes it.
SavedPerson == PersonPreSave([run.comp_person EXCEPT !.is_composer = TRUE, !.source = run.source])

\* add_composer is about to save a Person whose name can be synthesized.
AtSave ==
  /\ run.pc = "save"
  /\ ~(run.comp_person.name = <<>> /\ NameAssertFails(run.comp_person, NAME_COMPS))

\* Some Person row holds the key of the Person about to be saved.
KeyTaken ==
  \E i \in DOMAIN Person :
    Person[i].name = SavedPerson.name /\ Person[i].disamb = SavedPerson.disamb

\* C1: after any sequence of loads, no two Person rows share the same
\* (name, disamb) key.
PersonKeyUnique ==
  \A i, j \in DOMAIN Person :
    (Person[i].name = Person[j].name /\ Person[i].disamb = Person[j].disamb) => i = j

\* C1 witness: a duplicate insert was attempted while several Persons exist.
PersonKeyUnique_Witness ==
  /\ Len(Person) >= 2
  /\ \E c \in DOMAIN Conflict : Conflict[c].entity_name = "Person"

\* C2: an insert of a Person whose (name, disamb) key exists creates no
\* Person row and appends exactly one Conflict record (Person, the
\* synthesized name, operation "insert", the attempted attributes with the
\* load context and the metadata); a successful insert appends the Person
\* and no Conflict record.
DuplicateInsertRecorded ==
  [][ (AtSave /\ run'.pc # "idle") =>
        IF KeyTaken
        THEN /\ Person' = Person
             /\ Conflict' = Append(Conflict,
                              [entity_name |-> "Person",
                               entity_str |-> SavedPerson.name,
                               entity_info |-> [data |-> SavedPerson, ctx |-> Ctx(run),
                                                meta |-> run.meta],
                               operation |-> "insert",
                               reason |-> "duplicate"])
        ELSE /\ Person' = Append(Person, SavedPerson)
             /\ Conflict' = Conflict ]_vars

\* C2 witness: a Conflict record of a duplicate insert beside the Person
\* that holds the key.
DuplicateInsertRecorded_Witness ==
  \E c \in DOMAIN Conflict, i \in DOMAIN Person :
    /\ Conflict[c].entity_name = "Person"
    /\ Conflict[c].operation = "insert"
    /\ Conflict[c].entity_str = Person[i].name
    /\ Conflict[c].entity_info.data.disamb = Person[i].disamb

\* C3: a uniqueness collision on the insert of a Person or of a Work is
\* recorded as a Conflict and does not abort the load.
CollisionDoesNotAbort ==
  run.integrity # "" =>
    /\ run.exc = ""
    /\ \E c \in DOMAIN Conflict :
         Conflict[c].entity_name = run.integrity /\ Conflict[c].entity_info.ctx = Ctx(run)

Uninterrupted == RunToEnd(Call(run.ref, run.file, run.dryrun, run.load_ts)).st

\* C5: a load interrupted at any point and then run again from the start
\* ends with the Person, PersonName and PersonMeta rows of one uninterrupted
\* load of the segment.
RestartSafe ==
  (run.mode = "restart" /\ run.pc = "done") =>
    /\ Range(Person) = Range(Uninterrupted.Person)
    /\ Range(PersonName) = Range(Uninterrupted.PersonName)
    /\ Range(PersonMeta) = Range(Uninterrupted.PersonMeta)

\* The Failure row an unparseable composer name is to leave.
ParseFailureRow ==
  [entity_name |-> "Person", entity_str |-> run.comp_name,
   entity_info |-> [ctx |-> Ctx(run)], operation |-> "parse",
   reason |-> "could not parse"]

\* C6: when the parser returns nothing for a composer name during a
\* non-dryrun load, no Person is created for it and exactly one Failure row
\* (Person, the bare name, operation "parse", the load context) is appended.
UnparseableRecorded ==
  (run.parsed = "none" /\ ~run.dryrun) =>
    Cardinality({f \in DOMAIN Failure : Failure[f] = ParseFailureRow}) = 1

\* C7: an unparseable name does not abort the load: the item is counted as
\* skipped and the load goes on to return its counts.
UnparseableDoesNotAbort ==
  (run.parsed = "none" /\ ~run.dryrun) => (run.exc = "" /\ run.skip >= 1)

\* The lookups of find_composer for the string at hand.
ExactHits == ExactRows(PersonName, run.comp_str, run.source)

NormHits == NormRows(PersonName, run.comp_str, run.source)

\* load_work is about to look up the composer string of an item.
AtFind == run.pc = "find" /\ run.items[run.i].has_composer /\ run'.pc # "idle"

AmbiguousNormRaises ==
  [][ (AtFind /\ ExactHits = {} /\ Cardinality(NormHits) > 1) =>
        /\ run'.pc = "done"
        /\ run'.exc = "AssertionError"
        /\ run'.person_id = 0
        /\ UNCHANGED <<Person, PersonName, PersonMeta, Work, Conflict, Failure>> ]_vars

\* C9 witness: a load ended by the assertion on a string with several
\* normalized matches and no exact one.
AmbiguousNormRaises_Witness ==
  /\ run.pc = "done"
  /\ run.exc = "AssertionError"
  /\ run.cat = "work"
  /\ ExactHits = {}
  /\ Cardinality(NormHits) > 1

\* C10: for every by-last name that parse_comp_name accepts, parsing the
\* synthesized full_name with parse_comp_full_name gives components whose
\* full_name is the same string.
RoundTripStable ==
  (parse.stage = "reparsed" /\ parse.by_last) =>
    /\ parse.re.kind = "person"
    /\ ~NameAssertFails(parse.re.person, NAME_COMPS)
    /\ full_name(parse.re.person) = full_name(parse.res.person)

\* The store without its diagnostic rows.
NoDiagnostics(st) == [st EXCEPT !.Conflict = <<>>, !.Failure = <<>>]

\* What a load leaves that the claims on the resolution speak of: the rows
\* of the four entity tables, the counts and the exception, if any.
Outcome(sr) ==
  [Person |-> sr.st.Person, PersonName |-> sr.st.PersonName,
   PersonMeta |-> sr.st.PersonMeta, Work |-> sr.st.Work,
   ins |-> sr.run.ins, upd |-> sr.run.upd, skip |-> sr.run.skip, exc |-> sr.run.exc]

\* C11: the resolution never reads the Conflict or Failure tables: from two
\* stores that differ only in those rows the same load leaves the same
\* Person, PersonName, PersonMeta and Work rows and the same counts.
DiagnosticsNotRead ==
  run.pc \in {"c_parse", "find"} =>
    Outcome(RunToEnd(SR(Store, run))) = Outcome(RunToEnd(SR(NoDiagnostics(Store), run)))

\* C11 witness: a non-dryrun load starts on a store that holds Conflict rows.
DiagnosticsNotRead_Witness ==
  /\ run.pc \in {"c_parse", "find"}
  /\ run.i = 1
  /\ ~run.dryrun
  /\ Conflict # <<>>

\* C12: a later load never changes an existing Person row except to set
\* its is_composer flag: no row disappears, every row keeps its name,
\* disamb, alt_name and components, and a row that find_composer matches
\* has the flag set afterwards.
PersonFrame ==
  [][ /\ Len(Person') >= Len(Person)
      /\ \A i \in DOMAIN Person :
           IF Person'[i] = Person[i] THEN TRUE
           ELSE ~Person[i].is_composer /\ Person'[i] = [Person[i] EXCEPT !.is_composer = TRUE]
      /\ (AtFind /\ run'.via # "") => Person'[run'.person_id].is_composer ]_vars

\* C12 witness: the Person entered without the composer role has been matched
\* and carries the flag.
PersonFrame_Witness ==
  \E n \in DOMAIN PersonName :
    PersonName[n].person_res = "manual" /\ Person[PersonName[n].person].is_composer

\* The step that completes the resolution of the item at hand in a
\* non-dryrun load: find_composer returned a Person, or the loader is past
\* add_composer and its own loop over the names.
ResolvedStep ==
  /\ ~run.dryrun
  /\ run'.exc = ""
  /\ IF run.cat = "work"
     THEN run.pc \in {"find", "after_add", "onames"} /\ run'.pc = "work"
     ELSE run.pc \in {"after_add", "onames"} /\ run'.pc \in {"c_parse", "done"}

\* The metadata facts parse_comp_str extracted from the string at hand
\* (none when find_composer matched it unparsed).
ExtractedFacts == IF run.pc = "find" THEN <<>> ELSE run.meta

\* The Person the resolution ends with.
ResolvedPerson ==
  IF run.pc = "find" THEN run'.person_id
  ELSE IF run.pc = "after_add" /\ ~run.new_comp
  THEN PersonGet(Person, run.comp_person.name, run.comp_person.disamb)
  ELSE run.person_id

\* C13: after every successful resolution of a raw string each metadata
\* fact extracted from it is in PersonMeta for (the person, the key, the
\* source), exactly once.
FactsRecorded ==
  [][ ResolvedStep =>
        \A j \in DOMAIN ExtractedFacts :
          Cardinality({m \in DOMAIN PersonMeta' :
                         /\ PersonMeta'[m].person = ResolvedPerson
                         /\ PersonMeta'[m].key = ExtractedFacts[j][1]
                         /\ PersonMeta'[m].source = run.source}) = 1 ]_vars

\* The literal strings met while resolving the item at hand: the raw input
\* and, when it was parsed, the bare name, the alternate form and the forms
\* synthesized from the components.
Literals ==
  IF run.pc = "find" THEN {run.comp_str}
  ELSE ({run.comp_str, run.comp_name, run.alt_comp_str}
          \cup {AddComposerNames(run.comp_person)[j][2] :
                  j \in DOMAIN AddComposerNames(run.comp_person)}) \ {<<>>}

\* C14: after every successful non-dryrun resolution PersonName holds one
\* row keyed (name_str, source) for each literal string met.
LiteralsRecorded ==
  [][ ResolvedStep =>
        \A s \in Literals :
          Cardinality({n \in DOMAIN PersonName' :
                         PersonName'[n].name_str = s /\ PersonName'[n].source = run.source}) = 1 ]_vars

ReturnedPersonHasName ==
  /\ (parse.stage \in {"named", "reparsed"} /\ parse.res.kind = "person") =>
       (parse.res.person.first_name # <<>> \/ parse.res.person.last_name # <<>>)
  /\ (parse.stage = "reparsed" /\ parse.re.kind = "person") =>
       (parse.re.person.first_name # <<>> \/ parse.re.person.last_name # <<>>)

\* The parser's working state after each rule of parse_comp_name in turn,
\* from the fresh Person (1) to the final phase (11).
ParseStages(comp_name, disamb) ==
  LET s1 == ParseStart(comp_name, disamb)
      s2 == PiecePrefix(s1)
      s3 == PieceSuffix(s2)
      s4 == PieceCount(s3)
      s5 == SplitParts(s4)
      s6 == TrailingSuffix(s5, "first_pieces")
      s7 == TrailingSuffix(s6, "last_pieces")
      s8 == LeadingPrefix(s7)
      s9 == TrailingPrefix(s8)
      s10 == Inversion(s9)
  IN <<s1, s2, s3, s4, s5, s6, s7, s8, s9, s10, FinalPhase(s10)>>

\* load_composer on a page with the single row comp_str, from an empty
\* store, run through the parse of the row.
RowLoad(comp_str) ==
  StepCParse(EmptyStore,
             [IdleRun EXCEPT !.pc = "c_parse", !.source = "clmu", !.cat = "composer",
                             !.load_ts = 1, !.i = 1, !.comp_str = comp_str,
                             !.items = <<CompRow(comp_str, W("/c1"))>>])

\* C17: during one parse each of title, first_name, middle_name, last_prefix,
\* last_name and suffix is assigned at most once: no rule changes a component
\* that an earlier rule has set, the rule that meets a set component raises
\* AssertionError instead, the Person is the one the last rule left, and the
\* raise is an outcome of its own, neither a Person nor Unparseable, that
\* leaves the loader as that exception without a Failure row.
AssignedAtMostOnce ==
  (parse.stage = "named" /\ parse.by_last) =>
    LET st == ParseStages(parse.comp_name, parse.disamb)
        out == RowLoad(parse.raw)
    IN /\ parse.res = ParseResult(st[11])
       /\ \A k \in 1..10 : \A c \in Range(NAME_COMPS) :
            st[k].person[c] # <<>> => st[k + 1].person[c] = st[k].person[c]
       /\ \A k \in 1..10 :
            (st[k].exc = "" /\ st[k + 1].exc # "") => st[k + 1].person = st[k].person
       /\ parse.res.kind = "raise" =>
            /\ parse.res.exc = "AssertionError"
            /\ parse.res.person = NewPerson
            /\ out.run.pc = "done"
            /\ out.run.exc = "AssertionError"
            /\ out.st = EmptyStore

\* "Bach, the Elder, Jr.": the piece-level rule has set the suffix "Jr." and
\* the rule for a suffix at the end of the first part meets it and raises.
AssignedAtMostOnce_Witness ==
  /\ parse.stage = "named"
  /\ parse.by_last
  /\ parse.res.kind = "raise"
  /\ LET st == ParseStages(parse.comp_name, parse.disamb)
     IN /\ st[5].exc = ""
        /\ st[5].person.suffix = W("Jr.")
        /\ st[5].first_pieces = <<W("the"), W("Elder")>>
        /\ st[6].exc = "AssertionError"

\* C18: parse_comp_name returns Unparseable (None) exactly when 3 or more
\* comma pieces remain after the piece-level prefix and suffix extraction,
\* and then nothing of the Person under construction is returned, whatever
\* prefix or suffix had been extracted.
UnparseableIffThreeLeft ==
  (parse.stage = "named" /\ parse.by_last) =>
    LET st == ParseStages(parse.comp_name, parse.disamb)
    IN /\ parse.res.kind = "none" <=> Len(st[3].pieces) >= 3
       /\ parse.res.kind = "none" => parse.res = NoneResult

\* "Smith, John, Paul, Jr.": the suffix piece is extracted, three pieces
\* remain and the result is Unparseable.
UnparseableIffThreeLeft_Witness ==
  /\ parse.stage = "named"
  /\ parse.by_last
  /\ parse.res.kind = "none"
  /\ LET st == ParseStages(parse.comp_name, parse.disamb)
     IN /\ Len(st[1].pieces) = 4
        /\ st[3].person.suffix = W("Jr.")
        /\ Len(st[3].pieces) = 3

\* Piece-level suffix extraction attempted only with 2 or fewer comma pieces:
\* no piece is consumed as the suffix while 3 or more pieces remain after
\* the prefix extraction.
SuffixPieceOnlyWithTwoOrFewer ==
  (parse.stage = "named" /\ parse.by_last) =>
    LET st == ParseStages(parse.comp_name, parse.disamb)
    IN st[3] # st[2] => Len(st[2].pieces) <= 2

\* C19: piece-level suffix extraction is attempted whenever 2 or more comma
\* pieces remain after the prefix extraction, and never on a single piece:
\* the trailing piece, or else the piece right after the assumed last name
\* (the second), is consumed as the suffix if it is in the suffix vocabulary,
\* and a Person that is returned carries it.
SuffixPieceRule ==
  (parse.stage = "named" /\ parse.by_last) =>
    LET st == ParseStages(parse.comp_name, parse.disamb)
        p == st[2].pieces
        n == Len(p)
        taken == IF n > 1 /\ IsSuffixPiece(p[n]) THEN n
                 ELSE IF n > 1 /\ IsSuffixPiece(p[2]) THEN 2
                 ELSE 0
    IN IF taken = 0 THEN st[3] = st[2]
       ELSE /\ st[3].person = [st[2].person EXCEPT !.suffix = p[taken]]
            /\ st[3].pieces = Pop(p, taken)
            /\ parse.res.kind = "person" => parse.res.person.suffix = p[taken]

\* "Bach, Johann, Jr.": three pieces, the trailing one is consumed as the
\* suffix and the Person is returned with it.
SuffixPieceRule_Witness ==
  /\ parse.stage = "named"
  /\ parse.by_last
  /\ parse.res.kind = "person"
  /\ parse.res.person.suffix = W("Jr.")
  /\ parse.res.person.last_name = W("Bach")
  /\ parse.res.person.first_name = W("Johann")
  /\ Len(ParseStages(parse.comp_name, parse.disamb)[2].pieces) = 3

\* C20: piece-level last-name-prefix extraction is attempted only when the
\* name splits into 3 or more comma pieces; the leading piece of a 2-piece
\* name is never consumed whole as the prefix of the Person returned; and a
\* prefix token at the head of a longer last part is taken by the rule on
\* the words of the last part ("van Beethoven, Ludwig" gives last_prefix
\* "van", last_name "Beethoven", first_name "Ludwig").
PrefixPieceOnlyWithThree ==
  (parse.stage = "named" /\ parse.by_last) =>
    LET st == ParseStages(parse.comp_name, parse.disamb)
        p == st[1].pieces
    IN /\ st[2] # st[1] => Len(p) >= 3
       /\ (Len(p) = 2 /\ p[1] # <<>> /\ parse.res.kind = "person") =>
            parse.res.person.last_prefix # p[1]
       /\ parse.comp_name = <<"van", SP, "Beethoven", COMMA, SP, "Ludwig">> =>
            /\ parse.res.kind = "person"
            /\ parse.res.person.last_prefix = W("van")
            /\ parse.res.person.last_name = W("Beethoven")
            /\ parse.res.person.first_name = W("Ludwig")

\* C21: a two-piece "Last, First ..." name in which no title, prefix or
\* suffix token occurs (no word, and no two neighbouring words, of either
\* part is in a vocabulary) is returned with last_name the words of the last
\* part joined by single spaces, first_name the first word of the first
\* part, middle_name the remaining words of the first part joined by single
\* spaces (absent for a one-word first part) and nothing else set; its full
\* name is first, middle and last name in that order.
PlainTwoPieceName ==
  (parse.stage = "named" /\ parse.by_last) =>
    LET p == SplitCommaSp(parse.comp_name)
        lp == SplitWs(p[1])
        fp == SplitWs(p[2])
        Vocab(x) == \/ InList(x, TITLES)
                    \/ IsPrefixPiece(x)
                    \/ IsSuffixPiece(x)
        Clean(l) == /\ \A i \in DOMAIN l : ~Vocab(l[i])
                    /\ \A i \in 1..(Len(l) - 1) : ~Vocab(l[i] \o <<SP>> \o l[i + 1])
        person == parse.res.person
    IN (Len(p) = 2 /\ lp # <<>> /\ fp # <<>> /\ Clean(lp) /\ Clean(fp)) =>
         /\ parse.res.kind = "person"
         /\ person.last_name = Join(lp, <<SP>>)
         /\ person.first_name = fp[1]
         /\ person.middle_name = Join(Tail(fp), <<SP>>)
         /\ person.title = <<>>
         /\ person.last_prefix = <<>>
         /\ person.suffix = <<>>
         /\ full_name(person) = Join(fp \o lp, <<SP>>)

\* "Bach, Johann Sebastian" parsed: first_name "Johann", middle_name
\* "Sebastian", last_name "Bach", full name "Johann Sebastian Bach".
PlainTwoPieceName_Witness ==
  /\ parse.stage = "named"
  /\ parse.by_last
  /\ parse.comp_name = <<"Bach", COMMA, SP, "Johann", SP, "Sebastian">>
  /\ parse.res.kind = "person"
  /\ parse.res.person.first_name = W("Johann")
  /\ parse.res.person.middle_name = W("Sebastian")
  /\ parse.res.person.last_name = W("Bach")
  /\ full_name(parse.res.person) = <<"Johann", SP, "Sebastian", SP, "Bach">>

\* The keys of a metadata list.
MetaKeys(meta) == {meta[i][1] : i \in DOMAIN meta}

\* The value of key in a metadata list that holds it.
MetaValue(meta, key) == meta[CHOOSE i \in DOMAIN meta : meta[i][1] = key][2]

\* C22: the extraction of the trailing annotation applies at most one rule,
\* the floruit rule first: a "fl. <years>" ending gives only floruit; failing
\* that, a "<year>-<year?>" ending gives dates and born, and died only when
\* an end year is present; failing both there is no metadata and no
\* disambiguator and the name is the whole string (after the punctuation
\* fixup).  The annotation without its leading comma and space is the
\* disambiguator (", 1845-1924" gives born 1845, died 1924 and disambiguator
\* "1845-1924"), and floruit and dates never come together.
OneAnnotationRule ==
  parse.stage = "split" =>
    LET s == parse.raw
        pcs == parse_comp_str(s, parse.by_last)
        k == LastSpace(s)
        years == From(s, k + 1)
        h == LastHyphen(years)
        yearRun == years # <<>> /\ \A i \in DOMAIN years : years[i] \in DigitAtoms \cup {HYPHEN}
        floruit == k >= 4 /\ yearRun /\ s[k - 1] = "fl." /\ s[k - 2] = SP
        dates == ~floruit /\ k >= 2 /\ yearRun /\ h >= 2
        keys == MetaKeys(pcs.meta)
    IN /\ floruit => /\ keys = {"floruit"}
                     /\ MetaValue(pcs.meta, "floruit") = years
                     /\ pcs.disamb = <<"fl.", SP>> \o years
       /\ dates => /\ keys = IF From(years, h + 1) # <<>>
                             THEN {"dates", "born", "died"} ELSE {"dates", "born"}
                   /\ MetaValue(pcs.meta, "dates") = years
                   /\ MetaValue(pcs.meta, "born") = SubSeq(years, 1, h - 1)
                   /\ "died" \in keys => MetaValue(pcs.meta, "died") = From(years, h + 1)
                   /\ pcs.disamb = years
       /\ (~floruit /\ ~dates) => /\ keys = {}
                                  /\ pcs.disamb = <<>>
                                  /\ parse.comp_name = RStrip(FixCommas(s, 1, FALSE), {COMMA})
       /\ Len(pcs.meta) = Cardinality(keys)
       /\ (LastN(s, 5) = <<COMMA, SP, "1845", HYPHEN, "1924">> /\ Len(s) > 5) =>
            /\ MetaValue(pcs.meta, "born") = W("1845")
            /\ MetaValue(pcs.meta, "died") = W("1924")
            /\ pcs.disamb = <<"1845", HYPHEN, "1924">>
            /\ parse.comp_name = RStrip(FixCommas(DropLast(s, 5), 1, FALSE), {COMMA})

\* "Josquin, fl. 1450-1521": both rules could match the ending; the floruit
\* rule is the one applied.
OneAnnotationRule_Witness ==
  /\ parse.stage = "split"
  /\ parse.by_last
  /\ parse.raw = <<"Josquin", COMMA, SP, "fl.", SP, "1450", HYPHEN, "1521">>
  /\ parse.comp_name = W("Josquin")
  /\ parse.disamb = <<"fl.", SP, "1450", HYPHEN, "1521">>
  /\ parse_comp_str(parse.raw, TRUE).meta = << <<"floruit", <<"1450", HYPHEN, "1521">> >> >>

\* C23: after the punctuation fixup no comma of the bare name is directly
\* followed by a letter, whatever precedes the comma and also between
\* consecutive one-letter fields ("A,B,C"), and of the commas that end the
\* name exactly one has been stripped.
PunctuationFixed ==
  parse.stage = "split" =>
    LET n == parse.comp_name
        s == parse.raw
        ending(x) == Len(x) - Len(RStrip(x, {COMMA}))
    IN /\ \A i \in 1..(Len(n) - 1) : n[i] = COMMA => ~StartsWithLetter(n[i + 1])
       /\ parse.disamb = <<>> =>
            ending(n) = IF ending(s) > 0 THEN ending(s) - 1 ELSE 0

\* C24: parse_comp_full_name returns what parse_comp_name returns for a
\* reordered string chosen in this order: (1) the input unchanged when it
\* holds a comma whose trailing part is not a suffix of the vocabulary;
\* (2) otherwise (the comma before a trailing suffix set aside) the input
\* with a comma inserted before a prefix token that stands between spaces;
\* (3) otherwise the last name word moved to the front and followed by a
\* comma, a trailing suffix of one or two words staying behind as a comma
\* piece of its own.  Stated for the given-name-first parse of the bare name
\* and for the parse of a synthesized full name.
FullNameReordering ==
  LET Claimed(s, disamb) ==
        LET idx == RFind(s, <<COMMA>>)
            t == IF idx > 0 THEN SubSeq(s, 1, idx - 1) \o From(s, idx + 1) ELSE s
            toks == SplitWs(t)
            suf == IF Len(toks) >= 2 /\ InList(toks[Len(toks)], SUFFIXES) THEN 1
                   ELSE IF Len(toks) >= 3 /\ InList(Join(LastN(toks, 2), <<SP>>), SUFFIXES)
                   THEN 2 ELSE 0
            names == DropLast(toks, suf)
            tail == IF suf > 0 THEN <<COMMA, SP>> \o Join(LastN(toks, suf), <<SP>>) ELSE <<>>
            pfx == LAST_PREFIXES[Min(EmbeddedPrefixes(t))]
            at == RFind(t, <<SP>> \o pfx \o <<SP>>)
        IN IF idx > 0 /\ ~InList(Strip(From(s, idx + 1)), SUFFIXES)
           THEN parse_comp_name(s, disamb)
           ELSE IF EmbeddedPrefixes(t) # {}
           THEN parse_comp_name(SubSeq(t, 1, at - 1) \o <<COMMA>> \o From(t, at), disamb)
           ELSE IF Len(names) = 1
           THEN parse_comp_name(names[1] \o tail, disamb)
           ELSE parse_comp_name(names[Len(names)] \o <<COMMA, SP>>
                                  \o Join(DropLast(names, 1), <<SP>>) \o tail, disamb)
  IN /\ (parse.stage = "named" /\ ~parse.by_last) =>
          parse.res = Claimed(parse.comp_name, parse.disamb)
     /\ parse.stage = "reparsed" =>
          parse.re = Claimed(full_name(parse.res.person), parse.disamb)

NameSynthesis ==
  (parse.stage \in {"named", "reparsed"} /\ parse.res.kind = "person"
     /\ (parse.res.person.first_name # <<>> \/ parse.res.person.last_name # <<>>)) =>
    LET p == parse.res.person
        present(c) == c # <<>>
        E(list) == IF p.suffix = <<>> THEN Join(SelectSeq(list, present), <<SP>>)
                   ELSE Join(SelectSeq(list, present), <<SP>>) \o <<COMMA, SP>> \o p.suffix
    IN /\ full_name(p) = E(<<p.title, p.first_name, p.middle_name, p.last_prefix, p.last_name>>)
       /\ short_name(p) = IF p.first_name = <<>> THEN <<>>
                          ELSE E(<<p.title, p.first_name, p.last_prefix, p.last_name>>)
       /\ var_name(p) = IF p.middle_name = <<>> THEN <<>>
                        ELSE E(<<p.title, p.middle_name, p.last_prefix, p.last_name>>)
       /\ \A c \in Range(NAME_COMPS) : PersonPreSave(p)[c] = p[c]

\* "Bach, Johann Sebastian, Jr." parsed: full name "Johann Sebastian Bach,
\* Jr.", short name "Johann Bach, Jr.", variant name "Sebastian Bach, Jr.".
NameSynthesis_Witness ==
  /\ parse.stage = "named"
  /\ parse.res.kind = "person"
  /\ full_name(parse.res.person)
       = <<"Johann", SP, "Sebastian", SP, "Bach", COMMA, SP, "Jr.">>
  /\ short_name(parse.res.person) = <<"Johann", SP, "Bach", COMMA, SP, "Jr.">>
  /\ var_name(parse.res.person) = <<"Sebastian", SP, "Bach", COMMA, SP, "Jr.">>

\* C27: within one source no two PersonName rows with different name_str
\* have the same name_str_norm, so that a normalized lookup in a source
\* finds at most one row and find_composer's assertion on the number of
\* matches never ends a load.
NormUniquePerSource ==
  /\ \A m, n \in DOMAIN PersonName :
       (/\ PersonName[m].source = PersonName[n].source
        /\ PersonName[m].name_str_norm = PersonName[n].name_str_norm) =>
         PersonName[m].name_str = PersonName[n].name_str
  /\ ~(run.pc = "done" /\ run.cat = "work" /\ run.exc = "AssertionError"
         /\ Cardinality(NormHits) > 1)

\* C28: for every load that is not a dryrun and completes (returns its
\* counts), inserted + updated + skipped is the number of items of the
\* segment: every item has incremented exactly one of the three counters.
CountsCoverItems ==
  (run.pc = "done" /\ run.exc = "" /\ ~run.dryrun) =>
    run.ins + run.upd + run.skip = Len(run.items)

\* A completed composer load that counted one row as inserted and one as
\* updated.
CountsCoverItems_Witness ==
  /\ run.pc = "done"
  /\ run.exc = ""
  /\ ~run.dryrun
  /\ run.cat = "composer"
  /\ run.ins = 1
  /\ run.upd = 1
  /\ Len(run.items) = 2

\* C29: in the two-piece case, when the last part begins with a two-word
\* prefix of the vocabulary ("van der", "von der") before further words, the
\* whole two-word prefix is last_prefix and only the words after it form
\* last_name ("van der Beek, Jan": last_prefix "van der", last_name "Beek").
TwoWordPrefixCaptured ==
  (parse.stage = "named" /\ parse.by_last /\ parse.res.kind = "person") =>
    LET p == ParseStages(parse.comp_name, parse.disamb)[3].pieces
        lp == SplitWs(p[1])
    IN (Len(p) = 2 /\ Len(lp) >= 3 /\ InList(lp[1] \o <<SP>> \o lp[2], LAST_PREFIXES)) =>
         /\ parse.res.person.last_prefix = lp[1] \o <<SP>> \o lp[2]
         /\ parse.res.person.last_name = Join(From(lp, 3), <<SP>>)

\* C30: the extraction of the trailing annotation is total on
\* given-name-first input: for a one-word name followed by a space and an
\* annotation, with no comma ("Josquin 1450-1521", "Anonymous fl. 1500"),
\* parse_comp_str(comp_str, by_last = false) returns the bare name, the
\* disambiguator, the metadata and the alternate string "<name>,<annotation>"
\* and raises nothing.
TotalOnAnnotatedSingleName ==
  LET s == parse.raw
      byLast == parse_comp_str(s, TRUE)
      pcs == parse_comp_str(s, FALSE)
  IN (/\ parse.stage \in {"split", "raised"}
      /\ ~parse.by_last
      /\ Len(s) >= 3
      /\ s[2] = SP
      /\ Find(s, <<COMMA>>) = 0
      /\ byLast.disamb = From(s, 3)) =>
       /\ parse.stage = "split"
       /\ pcs.exc = ""
       /\ pcs.comp_name = <<s[1]>>
       /\ pcs.disamb = From(s, 3)
       /\ pcs.meta = byLast.meta
       /\ pcs.alt_comp_str = <<s[1], COMMA>> \o From(s, 2)
=============================================================================
